---- MODULE Spec2Model ----
(***************************************************************************)
(* Fact validation and recovery of block/frfr                              *)
(* (src/frfr/validation/fact_validator.py).                                *)
(*                                                                         *)
(* A Python str is a sequence of characters; a character is a one-element  *)
(* string, except EN, which stands for the en dash U+2013.  Optional       *)
(* values use None.                                                        *)
(***************************************************************************)
EXTENDS Integers, Sequences, FiniteSets, TLC

\* None, where a str is expected: a sequence no str equals
None == <<"None">>
EN == "EN"
NL == "\n"
Whitespace == {" ", NL, "\t"}
Digits == <<"0", "1", "2", "3", "4", "5", "6", "7", "8", "9">>

Max(a, b) == IF a >= b THEN a ELSE b
Min(a, b) == IF a <= b THEN a ELSE b

(***************************************************************************)
(* Python str primitives used by the validator.                            *)
(***************************************************************************)

\* str.lower() of one character
LowerChar(c) ==
    CASE c = "A" -> "a" [] c = "B" -> "b" [] c = "C" -> "c"
      [] c = "L" -> "l" [] OTHER -> c

\* str.lower()
Lower(s) == [i \in 1..Len(s) |-> LowerChar(s[i])]

\* sub in s
Contains(s, sub) ==
    \/ sub = <<>>
    \/ \E i \in 1..(Len(s) - Len(sub) + 1) :
          s[i] = sub[1] /\ SubSeq(s, i, i + Len(sub) - 1) = sub

\* s.find(sub, from), sub non-empty: 0-based index of the first occurrence at or
\* after from, -1 if none
RECURSIVE Find(_, _, _)
Find(s, sub, from) ==
    IF from + Len(sub) > Len(s) THEN -1
    ELSE IF s[from + 1] = sub[1] /\ SubSeq(s, from + 1, from + Len(sub)) = sub THEN from
    ELSE Find(s, sub, from + 1)

\* s.replace(old, new), old non-empty: non-overlapping occurrences, left to right
RECURSIVE ReplaceFrom(_, _, _, _)
ReplaceFrom(s, old, new, from) ==
    LET at == Find(s, old, from)
    IN  IF at = -1 THEN SubSeq(s, from + 1, Len(s))
        ELSE SubSeq(s, from + 1, at) \o new \o ReplaceFrom(s, old, new, at + Len(old))

Replace(s, old, new) == IF Contains(s, old) THEN ReplaceFrom(s, old, new, 0) ELSE s

\* the first position at or after i that holds no whitespace (Len(s) + 1 if none)
RECURSIVE SkipWs(_, _)
SkipWs(s, i) == IF i > Len(s) \/ s[i] \notin Whitespace THEN i ELSE SkipWs(s, i + 1)

\* the first position at or after i that holds whitespace (Len(s) + 1 if none)
RECURSIVE SkipWord(_, _)
SkipWord(s, i) == IF i > Len(s) \/ s[i] \in Whitespace THEN i ELSE SkipWord(s, i + 1)

\* the last position at or before i that holds no whitespace (0 if none)
RECURSIVE SkipWsBack(_, _)
SkipWsBack(s, i) == IF i < 1 \/ s[i] \notin Whitespace THEN i ELSE SkipWsBack(s, i - 1)

\* s.strip()
Strip(s) == SubSeq(s, SkipWs(s, 1), SkipWsBack(s, Len(s)))

\* s.split(): the maximal runs of non-whitespace characters, in order
RECURSIVE SplitWsFrom(_, _)
SplitWsFrom(s, from) ==
    LET b == SkipWs(s, from)
    IN  IF b > Len(s) THEN <<>>
        ELSE LET e == SkipWord(s, b)
             IN  <<SubSeq(s, b, e - 1)>> \o SplitWsFrom(s, e)

SplitWs(s) == SplitWsFrom(s, 1)

\* the first position at or after i that holds sep (Len(s) + 1 if none)
RECURSIVE SkipTo(_, _, _)
SkipTo(s, sep, i) == IF i > Len(s) \/ s[i] = sep THEN i ELSE SkipTo(s, sep, i + 1)

\* s.split(sep) for a one-character separator: always at least one part
RECURSIVE SplitOnFrom(_, _, _)
SplitOnFrom(s, sep, from) ==
    LET at == SkipTo(s, sep, from)
    IN  IF at > Len(s) THEN <<SubSeq(s, from, Len(s))>>
        ELSE <<SubSeq(s, from, at - 1)>> \o SplitOnFrom(s, sep, at + 1)

SplitOn(s, sep) == SplitOnFrom(s, sep, 1)

\* sep.join(words)
RECURSIVE Join(_, _)
Join(words, sep) ==
    IF words = <<>> THEN <<>>
    ELSE IF Len(words) = 1 THEN words[1]
    ELSE words[1] \o sep \o Join(Tail(words), sep)

\* "".join(lines)
RECURSIVE Concat(_)
Concat(ls) == IF ls = <<>> THEN <<>> ELSE ls[1] \o Concat(Tail(ls))

\* seq[i:j] with Python's treatment of negative and out-of-range indices
PySlice(seq, i, j) ==
    LET n  == Len(seq)
        lo == IF i < 0 THEN Max(0, n + i) ELSE Min(i, n)
        hi == IF j < 0 THEN Max(0, n + j) ELSE Min(j, n)
    IN  SubSeq(seq, lo + 1, hi)

\* str(n) for n >= 0
RECURSIVE IntToStr(_)
IntToStr(n) ==
    IF n < 10 THEN <<Digits[n + 1]>> ELSE IntToStr(n \div 10) \o <<Digits[(n % 10) + 1]>>

DigitValue(c) == CHOOSE d \in 0..9 : Digits[d + 1] = c
IsDigit(c) == \E d \in 1..10 : Digits[d] = c

RECURSIVE DigitsToInt(_)
DigitsToInt(s) ==
    IF s = <<>> THEN 0 ELSE 10 * DigitsToInt(SubSeq(s, 1, Len(s) - 1)) + DigitValue(s[Len(s)])

\* int(s): surrounding whitespace and one leading sign allowed, then digits only;
\* ValueError otherwise
Raised == [ok |-> FALSE]
Value(v) == [ok |-> TRUE, val |-> v]
PyInt(s) ==
    LET t    == Strip(s)
        sign == t # <<>> /\ t[1] \in {"+", "-"}
        body == IF sign THEN Tail(t) ELSE t
    IN  IF body = <<>> \/ \E i \in 1..Len(body) : ~IsDigit(body[i]) THEN Raised
        ELSE IF sign /\ t[1] = "-" THEN Value(0 - DigitsToInt(body))
        ELSE Value(DigitsToInt(body))

(***************************************************************************)
(* Program constants of the validator.                                     *)
(***************************************************************************)
AcceptPct == 70
MediumPct == 40
RecoveryConfidencePct == 80
ExpandLines == 5
RecoveryLines == 20

VARIABLES
    lines,          \* FactValidator.lines: the loaded document, one str per line
    claude_client,  \* FactValidator.claude_client: TRUE when a client is configured
    pc,             \* position of the running validate_fact call
    fact,           \* argument of validate_fact
    chunk_text,     \* argument of validate_fact (None when not supplied)
    frame,          \* local variables of the running validate_fact call
    response,       \* what the completion service answered in this call
    service_calls,  \* calls of claude_client.prompt made by this call
    result,         \* the ValidationResult returned, or the exception raised
    call,           \* the last direct call of a method of the validator, with what it returned
    fact_index,     \* argument of validate_fact
    all_facts,      \* validate_session: the facts loaded, the argument of validate_facts
    results,        \* validate_facts: the results appended so far
    stats,          \* validate_session: the summary returned
    session,        \* position of the running validate_session call
    service,        \* the answers of a deterministic completion service, per fact
    chunks,             \* extract_from_document: the chunks, with the facts extracted from each
    start_chunk,        \* extract_from_document: parameter start_chunk
    end_chunk,          \* extract_from_document: parameter end_chunk (NoEndChunk when not given)
    facts_dir,          \* Session.facts_dir: per chunk id, the chunk facts file of the document
    existing_facts,     \* what session.load_all_facts returned (resume)
    futures,            \* future_to_chunk: per chunk id, the state of its worker
    chunk_results,      \* chunk_results, a dict in insertion order
    validation_stats,   \* validation_stats
    document_facts,     \* all_facts of extract_from_document
    extraction          \* position of the running extract_from_document call

vars == <<lines, claude_client, pc, fact, chunk_text, frame, response, service_calls, result>>

\* what validate_fact leaves alone
session_vars == <<all_facts, results, stats, session, service>>
extraction_vars ==
    <<chunks, start_chunk, end_chunk, facts_dir, existing_facts, futures, chunk_results,
      validation_stats, document_facts, extraction>>
others == <<call, fact_index, session_vars, extraction_vars>>

NoStats == [total_facts |-> -1]
NoService == <<>>

\* nothing but validate_fact is running
NoSession ==
    /\ fact_index = 0
    /\ all_facts = <<>>
    /\ results = <<>>
    /\ stats = NoStats
    /\ session = "none"
    /\ service = NoService

\* end_chunk is None: no last chunk is given
NoEndChunk == 0 - 1

NoValidationStats == [total_extracted |-> 0, total_validated |-> 0, total_rejected |-> 0]

\* extract_from_document is not running
NoExtraction ==
    /\ chunks = <<>>
    /\ start_chunk = 0
    /\ end_chunk = NoEndChunk
    /\ facts_dir = <<>>
    /\ existing_facts = <<>>
    /\ futures = <<>>
    /\ chunk_results = <<>>
    /\ validation_stats = NoValidationStats
    /\ document_facts = <<>>
    /\ extraction = "none"

NoCall == [method |-> "none"]

(***************************************************************************)
(* FactValidator's pure methods.                                           *)
(***************************************************************************)

LinesWord == <<"L", "i", "n", "e", "s">>
LineWord == <<"L", "i", "n", "e">>

\* "Lines {a}-{b}"
FormatLines(a, b) == LinesWord \o <<" ">> \o IntToStr(a) \o <<"-">> \o IntToStr(b)

ExpandedSuffix ==
    <<" ", "(", "e", "x", "p", "a", "n", "d", "e", "d", " ", "s", "e", "a", "r", "c", "h", ")">>

parse_line_range(location) ==
    LET loc == Strip(Replace(Replace(location, LinesWord, <<>>), LineWord, <<>>))
    IN  IF Contains(loc, <<"-">>)
        THEN LET parts == SplitOn(loc, "-")
             IN  IF Len(parts) # 2 THEN Raised
                 ELSE LET a == PyInt(Strip(parts[1]))
                          b == PyInt(Strip(parts[2]))
                      IN  IF a.ok /\ b.ok THEN Value(<<a.val, b.val>>) ELSE Raised
        ELSE LET n == PyInt(Strip(loc))
             IN  IF n.ok THEN Value(<<n.val, n.val>>) ELSE Raised

\* the string literal between the triple quotes of line 79
QuoteReplaceOld ==
    <<",", " ", "'", "\"", "'", ")", ".", "r", "e", "p", "l", "a", "c", "e", "(">>

normalize_text(text) ==
    LET joined == Join(SplitWs(text), <<" ">>)
        quoted == Replace(joined, QuoteReplaceOld, <<"\"">>)
        single == Replace(Replace(quoted, <<"'">>, <<"'">>), <<"'">>, <<"'">>)
        dashed == Replace(Replace(single, <<" ", EN>>, <<EN>>), <<EN, " ">>, <<EN>>)
    IN  Strip(dashed)

\* get_line_text without the conversion of the start to a 0-based index
get_line_text_start_not_converted(start_line, end_line) ==
    LET start_idx == Max(0, start_line)
        end_idx   == Min(Len(lines), end_line)
    IN  Concat(PySlice(lines, start_idx, end_idx))

get_line_text(start_line, end_line) ==
    LET start_idx == Max(0, start_line - 1)
        end_idx   == Min(Len(lines), end_line)
    IN  Concat(PySlice(lines, start_idx, end_idx))

\* the loop of lines 137-143 comparing the words as they are written
RECURSIVE MatchLoop_case_sensitive(_, _, _, _, _)
MatchLoop_case_sensitive(text_words, quote_words, t, quote_idx, matched_words) ==
    IF t > Len(text_words) THEN matched_words
    ELSE IF quote_idx < Len(quote_words) /\ text_words[t] = quote_words[quote_idx + 1]
         THEN MatchLoop_case_sensitive(text_words, quote_words, t + 1, quote_idx + 1,
                                       matched_words + 1)
         ELSE MatchLoop_case_sensitive(text_words, quote_words, t + 1, quote_idx, matched_words)

\* the loop of lines 137-143
RECURSIVE MatchLoop(_, _, _, _, _)
MatchLoop(text_words, quote_words, t, quote_idx, matched_words) ==
    IF t > Len(text_words) THEN matched_words
    ELSE IF quote_idx < Len(quote_words)
            /\ Lower(text_words[t]) = Lower(quote_words[quote_idx + 1])
         THEN MatchLoop(text_words, quote_words, t + 1, quote_idx + 1, matched_words + 1)
         ELSE MatchLoop(text_words, quote_words, t + 1, quote_idx, matched_words)

\* f"{m/n:.0%}": the percentage rounded to an integer, ties to even
FormatPct(m, n) ==
    IF n = 0 THEN 0
    ELSE LET q == (100 * m) \div n
             r == (100 * m) % n
         IN  IF 2 * r > n \/ (2 * r = n /\ q % 2 = 1) THEN q + 1 ELSE q

\* the threshold taken exclusive: match_ratio > 0.7
RatioAccepted_exclusive(matched_words, total) ==
    total # 0 /\ 100 * matched_words > AcceptPct * total

\* match_ratio >= 0.7
RatioAccepted(matched_words, total) ==
    total # 0 /\ 100 * matched_words >= AcceptPct * total

ExactMatch == [label |-> "exact match", pct |-> -1]
PartialMatch(p) == [label |-> "partial match", pct |-> p]
NotFound(p) == [label |-> "not found", pct |-> p]

\* lines 127-150, on the normalized quote and text; returns <<found, match_type>>
Match(normalized_quote, normalized_text) ==
    IF Contains(normalized_text, normalized_quote) THEN <<TRUE, ExactMatch>>
    ELSE LET quote_words   == SplitWs(normalized_quote)
             text_words    == SplitWs(normalized_text)
             matched_words == MatchLoop(text_words, quote_words, 1, 0, 0)
             pct           == FormatPct(matched_words, Len(quote_words))
         IN  IF RatioAccepted(matched_words, Len(quote_words))
             THEN <<TRUE, PartialMatch(pct)>>
             ELSE <<FALSE, NotFound(pct)>>

find_quote_in_text(quote, text) == Match(normalize_text(quote), normalize_text(text))

(***************************************************************************)
(* The completion service (ClaudeClient.prompt) as attempt_fact_recovery   *)
(* sees it: the call raises (CLI failure or timeout, both RuntimeError),   *)
(* or returns text that json.loads rejects, or JSON that is no object, or  *)
(* an object whose fields may be missing.                                  *)
(***************************************************************************)
NoResponse ==
    [kind |-> "none", found |-> "absent", has_confidence |-> FALSE, confidence |-> 0,
     quote |-> None]

Failure(k) ==
    [kind |-> k, found |-> "absent", has_confidence |-> FALSE, confidence |-> 0,
     quote |-> None]

Object(f, hc, c, q) ==
    [kind |-> "object", found |-> f, has_confidence |-> hc, confidence |-> c, quote |-> q]

NoRecovery == [recovered |-> FALSE, raised |-> FALSE, quote |-> None, location |-> None]
Recovery(q, loc) == [recovered |-> TRUE, raised |-> FALSE, quote |-> q, location |-> loc]
Exception == [recovered |-> FALSE, raised |-> TRUE, quote |-> None, location |-> None]

\* the try block without the re-check of line 221: the returned quote is trusted
RecoveryTry_unverified(resp, search_context, start_line, end_line) ==
    IF resp.kind \in {"raise", "not_json", "not_object"} THEN Exception
    ELSE IF resp.found = "true"
            /\ (IF resp.has_confidence THEN resp.confidence ELSE 0) >= RecoveryConfidencePct
         THEN IF resp.quote = None THEN Exception
              ELSE Recovery(resp.quote, FormatLines(start_line, end_line))
         ELSE NoRecovery

\* the try block with the confidence bound taken exclusive: confidence > 0.8
RecoveryTry_exclusive(resp, search_context, start_line, end_line) ==
    IF resp.kind \in {"raise", "not_json", "not_object"} THEN Exception
    ELSE IF resp.found = "true"
            /\ (IF resp.has_confidence THEN resp.confidence ELSE 0) > RecoveryConfidencePct
         THEN IF resp.quote = None THEN Exception
              ELSE IF find_quote_in_text(resp.quote, search_context)[1]
                   THEN Recovery(resp.quote, FormatLines(start_line, end_line))
                   ELSE NoRecovery
         ELSE NoRecovery

\* the try block, lines 202-228
RecoveryTry(resp, search_context, start_line, end_line) ==
    IF resp.kind \in {"raise", "not_json", "not_object"} THEN Exception
    ELSE IF resp.found = "true"
            /\ (IF resp.has_confidence THEN resp.confidence ELSE 0) >= RecoveryConfidencePct
         THEN IF resp.quote = None THEN Exception
              ELSE IF find_quote_in_text(resp.quote, search_context)[1]
                   THEN Recovery(resp.quote, FormatLines(start_line, end_line))
                   ELSE NoRecovery
         ELSE NoRecovery

\* no except clause: what the try block raises leaves attempt_fact_recovery
ExceptException_absent(outcome) == outcome

\* except Exception: return None, lines 230-232
ExceptException(outcome) == IF outcome.raised THEN NoRecovery ELSE outcome

attempt_fact_recovery(resp, search_context, start_line, end_line) ==
    IF ~claude_client THEN NoRecovery
    ELSE ExceptException(RecoveryTry(resp, search_context, start_line, end_line))

(***************************************************************************)
(* validate_fact, one action per stage.                                    *)
(***************************************************************************)
NoFrame ==
    [quotes_to_validate |-> <<>>, start_line |-> 0, end_line |-> 0,
     failed_quotes |-> <<>>, match_types |-> <<>>,
     expanded_start |-> 0, expanded_end |-> 0, expanded_match_types |-> <<>>,
     best_match_ratio |-> 0, best_quote_for_recovery |-> None,
     recovery_start |-> 0, recovery_end |-> 0,
     stages |-> <<>>]   \* history: the stages this call has been through

NoResult == [outcome |-> "none"]

\* an exception leaves validate_fact
Raises == [outcome |-> "raised"]

\* ValidationResult(fact_index=fact_index, claim=claim[:80], ...): slicing a
\* claim that is None raises TypeError
Result(f, index, valid, msg, range, recovered, cq, cl) ==
    IF f.claim = None THEN Raises
    ELSE [outcome |-> "returned", fact_index |-> index,
          claim |-> PySlice(f.claim, 0, 80),
          is_valid |-> valid, error_message |-> msg,
          actual_line_range |-> range, was_recovered |-> recovered,
          corrected_quote |-> cq, corrected_location |-> cl]

\* the ValidationResult of the running call
ValidationResult(valid, msg, range, recovered, cq, cl) ==
    Result(fact, fact_index, valid, msg, range, recovered, cq, cl)

\* normalize_text(quote) raises AttributeError on a quote that is None
IllTyped(quotes) == \E i \in 1..Len(quotes) : quotes[i] = None

NoMessage == [text |-> ""]

\* the truth value of a str, a list or None: `if x:`
Truthy(x) == x # None /\ x # <<>>

\* lines 249-261 without the test `if single_quote:` of line 260
QuotesToValidate_unguarded(f) ==
    IF Truthy(f.evidence_quotes) THEN f.evidence_quotes
    ELSE <<f.evidence_quote>>

\* lines 249-261, the entries of evidence_quotes being the quotes themselves
QuotesToValidate(f) ==
    IF Truthy(f.evidence_quotes) THEN f.evidence_quotes
    ELSE IF Truthy(f.evidence_quote) THEN <<f.evidence_quote>>
    ELSE <<>>

\* find_quote_in_text(quote, text) for every quote, in order (the text is the
\* same in every call, and so is its normalization)
MatchAll(quotes, text) ==
    LET normalized_text == normalize_text(text)
    IN  [i \in 1..Len(quotes) |-> Match(normalize_text(quotes[i]), normalized_text)]

Failed(quotes, matches) ==
    LET idx == {i \in 1..Len(quotes) : ~matches[i][1]}
        RECURSIVE Pick(_)
        Pick(i) == IF i > Len(quotes) THEN <<>>
                   ELSE IF i \in idx THEN <<quotes[i]>> \o Pick(i + 1) ELSE Pick(i + 1)
    IN  Pick(1)

\* if chunk_text:
ChunkMode(ct) == Truthy(ct)

\* lines 264-272
NoEvidence(f, index) ==
    Result(f, index, FALSE, [text |-> "No evidence quotes found"],
           f.source_location, FALSE, None, None)

\* lines 276-310: every quote against the chunk text
ChunkValidation(f, index, quotes, ct) ==
    IF IllTyped(quotes) THEN Raises
    ELSE LET failed_quotes == Failed(quotes, MatchAll(quotes, ct))
         IN  IF failed_quotes = <<>>
             THEN Result(f, index, TRUE, NoMessage, f.source_location, FALSE, None, None)
             ELSE Result(f, index, FALSE,
                         [text |-> "quotes not found in chunk",
                          k |-> Len(failed_quotes), n |-> Len(quotes)],
                         f.source_location, FALSE, None, None)

\* the location that did not parse is let through as a whole-document claim
InvalidLocation_accepted(location) ==
    ValidationResult(TRUE, NoMessage, location, FALSE, None, None)

\* lines 314-322: except Exception, the location did not parse
InvalidLocation(location) ==
    ValidationResult(FALSE, [text |-> "Invalid location format", location |-> location],
                     <<>>, FALSE, None, None)

\* validate_fact is entered
Call(f, ct) ==
    /\ pc = "idle"
    /\ pc' = "start"
    /\ fact' = f
    /\ chunk_text' = ct
    /\ frame' = NoFrame
    /\ response' = NoResponse
    /\ service_calls' = 0
    /\ result' = NoResult
    /\ UNCHANGED <<lines, claude_client>>

\* lines 246-322: the quotes are collected; chunk mode is decided whole;
\* document mode parses the location
Start ==
    /\ pc = "start"
    /\ LET quotes == QuotesToValidate(fact)
           location == fact.source_location
       IN  IF quotes = <<>>
           THEN /\ result' = NoEvidence(fact, fact_index)
                /\ frame' = frame
                /\ pc' = "done"
           ELSE IF ChunkMode(chunk_text)
           THEN /\ frame' = [frame EXCEPT !.quotes_to_validate = quotes,
                                          !.failed_quotes =
                                              IF IllTyped(quotes) THEN <<>>
                                              ELSE Failed(quotes, MatchAll(quotes, chunk_text)),
                                          !.stages = <<"chunk">>]
                /\ result' = ChunkValidation(fact, fact_index, quotes, chunk_text)
                /\ pc' = "done"
           ELSE LET parsed == parse_line_range(location)
                IN  IF ~parsed.ok
                    THEN /\ result' = InvalidLocation(location)
                         /\ frame' = [frame EXCEPT !.quotes_to_validate = quotes]
                         /\ pc' = "done"
                    ELSE /\ frame' = [frame EXCEPT !.quotes_to_validate = quotes,
                                                   !.start_line = parsed.val[1],
                                                   !.end_line = parsed.val[2]]
                         /\ result' = result
                         /\ pc' = "exact"
    /\ UNCHANGED <<lines, claude_client, fact, chunk_text, response, service_calls>>

\* lines 324-351: every quote against the claimed lines
ExactStage ==
    /\ pc = "exact"
    /\ LET quotes == frame.quotes_to_validate
           line_text == get_line_text(frame.start_line, frame.end_line)
           matches == MatchAll(quotes, line_text)
           failed_quotes == Failed(quotes, matches)
       IN  IF IllTyped(quotes)
           THEN /\ frame' = [frame EXCEPT !.stages = Append(@, "exact")]
                /\ result' = Raises
                /\ pc' = "done"
           ELSE
           /\ frame' = [frame EXCEPT !.failed_quotes = failed_quotes,
                                     !.match_types = [i \in 1..Len(quotes) |-> matches[i][2]],
                                     !.stages = Append(@, "exact")]
           /\ IF failed_quotes = <<>>
              THEN /\ result' = ValidationResult(TRUE, NoMessage,
                                    FormatLines(frame.start_line, frame.end_line),
                                    FALSE, None, None)
                   /\ pc' = "done"
              ELSE /\ result' = result
                   /\ pc' = "expanded"
    /\ UNCHANGED <<lines, claude_client, fact, chunk_text, response, service_calls>>

\* lines 385-400: the percentages are read back out of the match labels; a label
\* without "%" (an exact match) is skipped
RECURSIVE BestMatch(_, _, _, _)
BestMatch(types, quotes, i, best) ==
    IF i > Len(types) THEN best
    ELSE IF types[i].label # "exact match" /\ types[i].pct > best[1]
         THEN BestMatch(types, quotes, i + 1, <<types[i].pct, quotes[i]>>)
         ELSE BestMatch(types, quotes, i + 1, best)

\* if 0.4 <= best_match_ratio < 0.7, on the parsed percentage
MediumConfidence(best_pct) == MediumPct <= best_pct /\ best_pct < AcceptPct

\* the end of the widened window without the clamp to the document
ExpandedEnd_unclamped(end_line) == end_line + ExpandLines

\* lines 354-355
ExpandedStart(start_line) == Max(1, start_line - ExpandLines)
ExpandedEnd(end_line) == Min(Len(lines), end_line + ExpandLines)

\* lines 353-402: every quote against the window widened by 5 lines; then the
\* best ratio decides whether recovery is tried
ExpandedStage ==
    /\ pc = "expanded"
    /\ LET quotes == frame.quotes_to_validate
           expanded_start == ExpandedStart(frame.start_line)
           expanded_end == ExpandedEnd(frame.end_line)
           expanded_text == get_line_text(expanded_start, expanded_end)
           matches == MatchAll(quotes, expanded_text)
           types == [i \in 1..Len(quotes) |-> matches[i][2]]
           best == BestMatch(types, quotes, 1, <<0, quotes[1]>>)
       IN  /\ frame' = [frame EXCEPT !.expanded_start = expanded_start,
                                     !.expanded_end = expanded_end,
                                     !.expanded_match_types = types,
                                     !.best_match_ratio = best[1],
                                     !.best_quote_for_recovery = best[2],
                                     !.stages = Append(@, "expanded")]
           /\ IF \A i \in 1..Len(quotes) : matches[i][1]
              THEN /\ result' = ValidationResult(TRUE, NoMessage,
                                    FormatLines(expanded_start, expanded_end) \o ExpandedSuffix,
                                    FALSE, None, None)
                   /\ pc' = "done"
              ELSE /\ result' = result
                   /\ pc' = IF MediumConfidence(best[1]) THEN "recovery" ELSE "reject"
    /\ UNCHANGED <<lines, claude_client, fact, chunk_text, response, service_calls>>

\* lines 403-426 with the corrected quote and location left out of the result
Recovered_uncorrected(recovery_start, recovery_end, recovery_result) ==
    /\ frame' = [frame EXCEPT !.recovery_start = recovery_start,
                              !.recovery_end = recovery_end,
                              !.stages = Append(@, "recovery")]
    /\ IF recovery_result.raised
       THEN /\ result' = Raises
            /\ pc' = "done"
       ELSE IF recovery_result.recovered
       THEN /\ result' = ValidationResult(TRUE, NoMessage, recovery_result.location, TRUE,
                             None, None)
            /\ pc' = "done"
       ELSE /\ result' = result
            /\ pc' = "reject"

\* lines 403-426, given what attempt_fact_recovery returned
Recovered(recovery_start, recovery_end, recovery_result) ==
    /\ frame' = [frame EXCEPT !.recovery_start = recovery_start,
                              !.recovery_end = recovery_end,
                              !.stages = Append(@, "recovery")]
    /\ IF recovery_result.raised
       THEN /\ result' = Raises
            /\ pc' = "done"
       ELSE IF recovery_result.recovered
       THEN /\ result' = ValidationResult(TRUE, NoMessage, recovery_result.location, TRUE,
                             recovery_result.quote, recovery_result.location)
            /\ pc' = "done"
       ELSE /\ result' = result
            /\ pc' = "reject"

\* lines 406-407
RecoveryStart == Max(1, frame.start_line - RecoveryLines)
RecoveryEnd == Min(Len(lines), frame.end_line + RecoveryLines)

\* recovery without a client: attempt_fact_recovery returns at line 172
RecoverWithoutClient ==
    /\ pc = "recovery"
    /\ ~claude_client
    /\ Recovered(RecoveryStart, RecoveryEnd,
                 attempt_fact_recovery(NoResponse,
                     get_line_text(RecoveryStart, RecoveryEnd), RecoveryStart, RecoveryEnd))
    /\ UNCHANGED <<lines, claude_client, fact, chunk_text, response, service_calls>>

\* recovery with a client: the service is called once and answers resp
RecoverWithService(resp) ==
    /\ pc = "recovery"
    /\ claude_client
    /\ IF fact.claim = None    \* claim[:60], line 174, raises before the call
       THEN /\ service_calls' = service_calls
            /\ response' = response
            /\ Recovered(RecoveryStart, RecoveryEnd, Exception)
       ELSE /\ service_calls' = service_calls + 1
            /\ response' = resp
            /\ Recovered(RecoveryStart, RecoveryEnd,
                     attempt_fact_recovery(resp,
                         get_line_text(RecoveryStart, RecoveryEnd), RecoveryStart, RecoveryEnd))
    /\ UNCHANGED <<lines, claude_client, fact, chunk_text>>

\* lines 428-441
Reject ==
    /\ pc = "reject"
    /\ result' = ValidationResult(FALSE,
                     [text |-> "quotes not found in specified lines or nearby",
                      k |-> Len(frame.failed_quotes),
                      n |-> Len(frame.quotes_to_validate),
                      best |-> frame.expanded_match_types[1]],
                     FormatLines(frame.start_line, frame.end_line), FALSE, None, None)
    /\ pc' = "done"
    /\ UNCHANGED <<lines, claude_client, fact, chunk_text, frame, response, service_calls>>

NoFact ==
    [claim |-> <<>>, source_location |-> <<>>, evidence_quotes |-> <<>>,
     evidence_quote |-> <<>>]

\* validate_fact has returned; the validator is ready for the next fact
Return ==
    /\ pc = "done"
    /\ pc' = "idle"
    /\ fact' = NoFact
    /\ chunk_text' = None
    /\ frame' = NoFrame
    /\ response' = NoResponse
    /\ service_calls' = 0
    /\ result' = NoResult
    /\ UNCHANGED <<lines, claude_client>>

(***************************************************************************)
(* The documents, facts, chunk texts and service answers explored.         *)
(***************************************************************************)
NumLines == 30
MaxQuotes == 2
MidQuoteWords == 10
LongQuoteWords == 23

\* n times the word "a"
Rep(n) == Join([i \in 1..n |-> <<"a">>], <<" ">>)

\* two lines "b", then lines "a", and a last line "c"
DocA ==
    [i \in 1..NumLines |->
        IF i <= 2 THEN <<"b", NL>> ELSE IF i = NumLines THEN <<"c", NL>> ELSE <<"a", NL>>]

\* upper case, a run of blanks, an en dash with blanks around it
DocB == << <<"A", " ", " ", "b", NL>>, <<"a", "b", " ", EN, " ", "c", NL>>, <<"c", " ", "a", NL>> >>

Docs == {DocA, DocB, <<>>}

\* runs of the word "a", a word of the last line only, and a quote that differs
\* from the text in case and in blanks
Quotes == {Rep(MidQuoteWords), Rep(LongQuoteWords), <<"c">>, <<"A", " ", " ", "b">>}

\* one quote of any kind, or several of the shorter ones
QuoteLists ==
    {<<q>> : q \in Quotes}
    \cup UNION {[1..n -> Quotes \ {Rep(LongQuoteWords)}] : n \in 2..MaxQuotes}

\* a claimed range per case of DocA: windows holding 4, 7, 9, 12 and 16 words "a",
\* with and without the last line in reach, a range past the end, a reversed
\* range, the "Line n" form and a string that is no location
LocationsA ==
    {FormatLines(1, 1), FormatLines(1, 4), FormatLines(1, 6), FormatLines(8, 9),
     FormatLines(8, 13), FormatLines(10, 11), FormatLines(40, 41), FormatLines(9, 3),
     LineWord \o <<" ">> \o IntToStr(NumLines),
     <<"l", "i", "n", "e", "s", " ", "3", "-", "5">>}

LocationsOf(doc) ==
    IF doc = DocA THEN LocationsA
    ELSE IF doc = DocB THEN {FormatLines(1, 1), FormatLines(3, 3)}
    ELSE {FormatLines(1, 1)}

FactsOf(doc) ==
    {[claim |-> <<"c">>, source_location |-> l, evidence_quotes |-> qs, evidence_quote |-> <<>>] :
        l \in LocationsOf(doc), qs \in QuoteLists}
    \cup
    {[claim |-> <<"c">>, source_location |-> l, evidence_quotes |-> <<>>, evidence_quote |-> q] :
        l \in LocationsOf(doc), q \in Quotes \cup {<<>>}}

ChunkTexts == {None, <<>>, <<"a", " ", "a", " ", "a", " ", "A", NL, "b", " ", "c">>}

ResponseQuotes == {None, Rep(2), <<"c">>}

Responses ==
    {Failure(k) : k \in {"raise", "not_json", "not_object"}}
    \cup
    {Object("true", TRUE, c, q) : c \in {79, 80, 95}, q \in ResponseQuotes}
    \cup
    {Object("true", FALSE, 0, q) : q \in ResponseQuotes}
    \cup
    {Object(f, TRUE, 95, Rep(2)) : f \in {"false", "absent"}}

Init ==
    /\ lines \in Docs
    /\ claude_client \in BOOLEAN
    /\ pc = "idle"
    /\ fact = NoFact
    /\ chunk_text = None
    /\ frame = NoFrame
    /\ response = NoResponse
    /\ service_calls = 0
    /\ result = NoResult
    /\ call = NoCall
    /\ NoSession
    /\ NoExtraction

Next ==
    \/ pc = "idle" /\ (\E f \in FactsOf(lines), ct \in ChunkTexts : Call(f, ct)) /\ UNCHANGED others
    \/ Start /\ UNCHANGED others
    \/ ExactStage /\ UNCHANGED others
    \/ ExpandedStage /\ UNCHANGED others
    \/ RecoverWithoutClient /\ UNCHANGED others
    \/ pc = "recovery" /\ (\E resp \in Responses : RecoverWithService(resp)) /\ UNCHANGED others
    \/ Reject /\ UNCHANGED others
    \/ Return /\ UNCHANGED others

Spec == Init /\ [][Next]_<<vars, others>>

(***************************************************************************)
(* Direct calls of get_line_text, with any integers as the range, and of   *)
(* parse_line_range.                                                       *)
(***************************************************************************)
MaxOutside == 2

LineNumbers == (0 - MaxOutside - 1)..(NumLines + MaxOutside)

CallGetLineText(start_line, end_line) ==
    /\ call' = [method |-> "get_line_text", start_line |-> start_line, end_line |-> end_line,
                returned |-> get_line_text(start_line, end_line)]
    /\ UNCHANGED <<vars, fact_index, session_vars, extraction_vars>>

InitLines ==
    /\ lines \in Docs
    /\ claude_client = FALSE
    /\ pc = "idle"
    /\ fact = NoFact
    /\ chunk_text = None
    /\ frame = NoFrame
    /\ response = NoResponse
    /\ service_calls = 0
    /\ result = NoResult
    /\ call = NoCall
    /\ NoSession
    /\ NoExtraction

\* parse_line_range called on the location string; a and b are the numbers the
\* string was written from
CallParseLineRange(location, a, b) ==
    /\ call' = [method |-> "parse_line_range", location |-> location,
                start_line |-> a, end_line |-> b, returned |-> parse_line_range(location)]
    /\ UNCHANGED <<vars, fact_index, session_vars, extraction_vars>>

\* the words "Lines" and "Line" in the letter cases tried
LinesSpellings == {LinesWord, <<"l", "i", "n", "e", "s">>, <<"L", "I", "N", "E", "S">>}
LineSpellings == {LineWord, <<"l", "i", "n", "e">>, <<"L", "I", "N", "E">>}

\* "<Lines> a-b" in every spelling, and "<Line> a"
LocationCalls ==
    {[location |-> w \o <<" ">> \o IntToStr(a) \o <<"-">> \o IntToStr(b), a |-> a, b |-> b] :
        w \in LinesSpellings, a \in 1..NumLines, b \in {NumLines}}
    \cup
    {[location |-> w \o <<" ">> \o IntToStr(a), a |-> a, b |-> a] :
        w \in LineSpellings, a \in 1..NumLines}

NextLines ==
    \/ \E start_line \in LineNumbers, end_line \in LineNumbers :
          CallGetLineText(start_line, end_line)
    \/ \E c \in LocationCalls : CallParseLineRange(c.location, c.a, c.b)

SpecLines == InitLines /\ [][NextLines]_<<vars, others>>

(***************************************************************************)
(* Direct calls of find_quote_in_text on quotes and texts of a few words.  *)
(***************************************************************************)
MaxQuoteWords == 3
MaxTextWords == 4

Words == {<<"a">>, <<"A">>, <<"b">>}

\* quotes: words separated by a blank; texts: one word a line
QuoteInputs == {Join(ws, <<" ">>) : ws \in UNION {[1..n -> Words] : n \in 1..MaxQuoteWords}}
TextInputs == {Join(ws, <<NL>>) : ws \in UNION {[1..n -> Words] : n \in 0..MaxTextWords}}

\* find_quote_in_text(quote, text) is entered
Entered(quote, text) ==
    [method |-> "find_quote_in_text", quote |-> quote, text |-> text, at |-> "entered",
     matched_words |-> 0, returned |-> None]

\* find_quote_in_text runs: the words matched by the loop of lines 137-143
\* and what is returned
CallFindQuoteInText ==
    /\ call.method = "find_quote_in_text"
    /\ call.at = "entered"
    /\ call' = [call EXCEPT
                   !.at = "returned",
                   !.matched_words = MatchLoop(SplitWs(normalize_text(call.text)),
                                               SplitWs(normalize_text(call.quote)), 1, 0, 0),
                   !.returned = find_quote_in_text(call.quote, call.text)]
    /\ UNCHANGED <<vars, fact_index, session_vars, extraction_vars>>

InitMatch ==
    /\ lines = <<>>
    /\ claude_client = FALSE
    /\ pc = "idle"
    /\ fact = NoFact
    /\ chunk_text = None
    /\ frame = NoFrame
    /\ response = NoResponse
    /\ service_calls = 0
    /\ result = NoResult
    /\ call \in {Entered(quote, text) : quote \in QuoteInputs, text \in TextInputs}
    /\ NoSession
    /\ NoExtraction

NextMatch == CallFindQuoteInText

SpecMatch == InitMatch /\ [][NextMatch]_<<vars, others>>

(***************************************************************************)
(* validate_session and validate_consolidated_facts: validate_facts over   *)
(* the facts loaded, then the summary.  The service, when configured, is   *)
(* deterministic: one answer per fact it is asked about.                   *)
(***************************************************************************)
MaxFacts == 2

\* for i, fact in enumerate(facts), after n iterations
Enumerate_from_one(facts, n) == [i |-> n + 1, fact |-> facts[n + 1]]

Enumerate(facts, n) == [i |-> n, fact |-> facts[n + 1]]

\* the service is stateful: it answers a fact once and raises when asked again
ServiceAnswer_once(f) ==
    IF \E i \in 1..Len(results) : all_facts[i] = f THEN Failure("raise") ELSE service[f]

\* self.claude_client.prompt(prompt), the prompt built from the fact
ServiceAnswer(f) == service[f]

\* valid_count / len(results), unguarded: ZeroDivisionError on no results
TrueDivide(a, b) == IF b = 0 THEN [raised |-> TRUE, num |-> 0, den |-> 0]
                    ELSE [raised |-> FALSE, num |-> a, den |-> b]

ValidationRate_unguarded(valid_count, total) == TrueDivide(valid_count, total)

\* valid_count / len(results) if results else 0
ValidationRate(valid_count, total) ==
    IF total # 0 THEN TrueDivide(valid_count, total)
    ELSE [raised |-> FALSE, num |-> 0, den |-> 1]

\* lines 493-502 and 533-542
Stats(rs) ==
    LET valid_count == Cardinality({i \in 1..Len(rs) : rs[i].is_valid})
        invalid_count == Len(rs) - valid_count
    IN  [total_facts |-> Len(rs), valid_facts |-> valid_count,
         invalid_facts |-> invalid_count,
         validation_rate |-> ValidationRate(valid_count, Len(rs))]

\* validate_facts, line 456: result = self.validate_fact(fact, i)
CallValidateFact ==
    /\ session = "validate_facts"
    /\ pc = "idle"
    /\ Len(results) < Len(all_facts)
    /\ LET next == Enumerate(all_facts, Len(results))
       IN  /\ Call(next.fact, None)
           /\ fact_index' = next.i
    /\ UNCHANGED <<call, session_vars, extraction_vars>>

\* validate_facts, line 457: results.append(result)
AppendResult ==
    /\ session = "validate_facts"
    /\ pc = "done"
    /\ result.outcome = "returned"
    /\ results' = Append(results, result)
    /\ Return
    /\ UNCHANGED <<call, fact_index, all_facts, stats, session, service, extraction_vars>>

\* validate_fact raised: nothing in validate_facts or its callers catches it
Propagate ==
    /\ session = "validate_facts"
    /\ pc = "done"
    /\ result.outcome = "raised"
    /\ session' = "raised"
    /\ Return
    /\ UNCHANGED <<call, fact_index, all_facts, results, stats, service, extraction_vars>>

\* validate_facts returned; lines 493-504 (validate_session), 533-544
\* (validate_consolidated_facts)
Summarize ==
    /\ session = "validate_facts"
    /\ pc = "idle"
    /\ Len(results) = Len(all_facts)
    /\ stats' = Stats(results)
    /\ session' = "returned"
    /\ UNCHANGED <<vars, call, fact_index, all_facts, results, service, extraction_vars>>

Fact(claim, quote, location) ==
    [claim |-> claim, source_location |-> location, evidence_quotes |-> <<>>,
     evidence_quote |-> quote]

\* facts that are valid in the claimed lines, valid in the widened window,
\* open to recovery and rejected
WellFormedFacts ==
    {Fact(<<"c">>, <<"c">>, LineWord \o <<" ">> \o IntToStr(NumLines)),
     Fact(<<"d">>, Rep(MidQuoteWords), FormatLines(1, 4)),
     Fact(<<"e">>, Rep(LongQuoteWords), FormatLines(8, 9)),
     Fact(<<"f">>, <<"c">>, FormatLines(1, 1))}

\* facts with a field missing (the empty default of fact.get) or None
MalformedFacts ==
    {Fact(<<>>, <<"c">>, LineWord \o <<" ">> \o IntToStr(NumLines)),
     Fact(None, <<"c">>, LineWord \o <<" ">> \o IntToStr(NumLines)),
     Fact(<<"g">>, <<"c">>, <<>>),
     [claim |-> <<"h">>, source_location |-> FormatLines(1, 1),
      evidence_quotes |-> <<None>>, evidence_quote |-> <<>>]}

SessionFacts == WellFormedFacts \cup MalformedFacts

FactLists == UNION {[1..n -> SessionFacts] : n \in 0..MaxFacts}

SessionResponses == {Failure("raise"), Object("true", TRUE, 95, Rep(2))}

\* one answer for the fact claimed "e", one for every other fact
Services ==
    {[f \in SessionFacts |-> IF f.claim = <<"e">> THEN r ELSE o] :
        r \in SessionResponses, o \in SessionResponses}

InitSession ==
    /\ lines = DocA
    /\ claude_client \in BOOLEAN
    /\ pc = "idle"
    /\ fact = NoFact
    /\ chunk_text = None
    /\ frame = NoFrame
    /\ response = NoResponse
    /\ service_calls = 0
    /\ result = NoResult
    /\ call = NoCall
    /\ fact_index = 0
    /\ all_facts \in FactLists
    /\ results = <<>>
    /\ stats = NoStats
    /\ session = "validate_facts"
    /\ service \in (IF claude_client THEN Services
                    ELSE {[f \in SessionFacts |-> Failure("raise")]})
    /\ NoExtraction

NextSession ==
    \/ CallValidateFact
    \/ Start /\ UNCHANGED others
    \/ ExactStage /\ UNCHANGED others
    \/ ExpandedStage /\ UNCHANGED others
    \/ RecoverWithoutClient /\ UNCHANGED others
    \/ pc = "recovery" /\ RecoverWithService(ServiceAnswer(fact)) /\ UNCHANGED others
    \/ Reject /\ UNCHANGED others
    \/ AppendResult
    \/ Propagate
    \/ Summarize

SpecSession == InitSession /\ [][NextSession]_<<vars, others>>

(***************************************************************************)
(* FactExtractor: extract_from_document runs _process_single_chunk for     *)
(* every chunk on a pool of workers, collects the results as they          *)
(* complete and combines them.  What the model extracts from a chunk is    *)
(* an input; every chunk text is non-empty.                                *)
(***************************************************************************)
NumChunks == 3
MaxWorkers == 2

ExtractedFact(claim, quote, location, auto) ==
    [claim |-> claim, evidence_quote |-> quote, source_location |-> location,
     auto_generated |-> auto]

\* fact.model_dump(): the legacy quote is also the one entry of evidence_quotes
\* (schemas.py, lines 58-74), which validate_fact reads through eq.get("quote")
model_dump(f) ==
    [claim |-> f.claim, source_location |-> f.source_location,
     evidence_quotes |-> <<f.evidence_quote>>, evidence_quote |-> f.evidence_quote,
     auto_generated |-> f.auto_generated]

\* validator.validate_fact(fact_dict, index, chunk_text=chunk_text) for a
\* non-empty chunk text, lines 246-310
ValidateFactInChunk(f, index, ct) ==
    LET quotes == QuotesToValidate(f)
    IN  IF quotes = <<>> THEN NoEvidence(f, index)
        ELSE ChunkValidation(f, index, quotes, ct)

\* the auto_generated test never holds: every fact is validated
SkipsValidation_never(f) == FALSE

\* if getattr(fact, 'auto_generated', False)
SkipsValidation(f) == f.auto_generated

NoChunkStats == [extracted |-> 0, validated |-> 0, rejected |-> 0, recovered |-> 0]

\* _process_single_chunk, lines 238-268: for fact in facts
RECURSIVE ValidateEach(_, _, _, _, _, _)
ValidateEach(facts, i, ct, existing_fact_count, validated_facts, cstats) ==
    IF i > Len(facts) THEN [validated_facts |-> validated_facts, stats |-> cstats]
    ELSE IF SkipsValidation(facts[i])
    THEN ValidateEach(facts, i + 1, ct, existing_fact_count,
                      Append(validated_facts, facts[i]),
                      [cstats EXCEPT !.validated = @ + 1])
    ELSE LET validation_result ==
                 ValidateFactInChunk(model_dump(facts[i]),
                                     existing_fact_count + Len(validated_facts), ct)
             kept == IF validation_result.was_recovered
                     THEN [facts[i] EXCEPT
                              !.evidence_quote = validation_result.corrected_quote,
                              !.source_location = validation_result.corrected_location]
                     ELSE facts[i]
         IN  IF validation_result.is_valid
             THEN ValidateEach(facts, i + 1, ct, existing_fact_count,
                      Append(validated_facts, kept),
                      [cstats EXCEPT !.validated = @ + 1,
                                     !.recovered = @ + (IF validation_result.was_recovered
                                                        THEN 1 ELSE 0)])
             ELSE ValidateEach(facts, i + 1, ct, existing_fact_count, validated_facts,
                      [cstats EXCEPT !.rejected = @ + 1])

\* _process_single_chunk: (chunk_id, validated_facts, stats)
process_single_chunk(chunk_info, existing_fact_count) ==
    LET done == ValidateEach(chunk_info.facts, 1, chunk_info.chunk_text, existing_fact_count,
                             <<>>, [NoChunkStats EXCEPT !.extracted = Len(chunk_info.facts)])
    IN  [chunk_id |-> chunk_info.chunk_id, validated_facts |-> done.validated_facts,
         stats |-> done.stats]

\* a dict as the sequence of its items in insertion order
DictHas(d, key) == \E n \in 1..Len(d) : d[n].key = key
DictGet(d, key) == d[CHOOSE n \in 1..Len(d) : d[n].key = key].value
DictSet(d, key, value) ==
    IF DictHas(d, key)
    THEN [n \in 1..Len(d) |-> IF d[n].key = key THEN [key |-> key, value |-> value] ELSE d[n]]
    ELSE Append(d, [key |-> key, value |-> value])

RECURSIVE SortedSeq(_)
SortedSeq(S) ==
    IF S = {} THEN <<>>
    ELSE LET least == CHOOSE x \in S : \A y \in S : x <= y
         IN  <<least>> \o SortedSeq(S \ {least})

\* the keys in the order the results were collected
SortedKeys_as_inserted(d) == [n \in 1..Len(d) |-> d[n].key]

\* sorted(chunk_results.keys())
SortedKeys(d) == SortedSeq({d[n].key : n \in 1..Len(d)})

\* lines 1504-1507: the chunks from start_chunk on, up to end_chunk when given
ToProcess ==
    {n \in 1..Len(chunks) :
        /\ chunks[n].chunk_id >= start_chunk
        /\ end_chunk # NoEndChunk => chunks[n].chunk_id <= end_chunk}

\* a chunk facts file of the session, and no such file
NoFile == [saved |-> FALSE, facts |-> <<>>]
File(facts) == [saved |-> TRUE, facts |-> facts]

\* ExtractedFact(**fact_dict) on a dict that model_dump produced
FromDict(fact_dict) ==
    ExtractedFact(fact_dict.claim, fact_dict.evidence_quote, fact_dict.source_location,
                  fact_dict.auto_generated)

\* Session.load_all_facts: every chunk facts file of the document, in the
\* order of the file names, which is the order of the chunk ids
RECURSIVE load_all_facts(_, _)
load_all_facts(dir, n) ==
    IF n > Len(dir) THEN <<>>
    ELSE (IF dir[n].saved THEN dir[n].facts ELSE <<>>) \o load_all_facts(dir, n + 1)

\* Session.save_chunk_facts(document_name, chunk_id, validated_dicts)
save_chunk_facts(dir, chunk_id, validated_facts) ==
    [dir EXCEPT ![chunk_id + 1] =
        File([k \in 1..Len(validated_facts) |-> model_dump(validated_facts[k])])]

\* lines 1504-1541: when resuming, the facts of the session are loaded; then
\* every chunk to process is submitted to the pool
SubmitChunks ==
    /\ extraction = "called"
    /\ existing_facts' =
          IF start_chunk > 0
          THEN LET loaded == load_all_facts(facts_dir, 1)
               IN  [k \in 1..Len(loaded) |-> FromDict(loaded[k])]
          ELSE <<>>
    /\ document_facts' = existing_facts'
    /\ futures' = [n \in 1..Len(chunks) |->
                      [state |-> IF n \in ToProcess THEN "submitted" ELSE "none",
                       returned |-> None]]
    /\ extraction' = "collecting"
    /\ UNCHANGED <<vars, call, fact_index, session_vars, chunks, start_chunk, end_chunk,
                   facts_dir, chunk_results, validation_stats>>

Running == {n \in ToProcess : futures[n].state = "running"}

\* a free worker of the pool takes a submitted chunk
StartWorker(n) ==
    /\ extraction = "collecting"
    /\ n \in ToProcess
    /\ futures[n].state = "submitted"
    /\ Cardinality(Running) < MaxWorkers
    /\ futures' = [futures EXCEPT ![n].state = "running"]
    /\ UNCHANGED <<vars, call, fact_index, session_vars, chunks, start_chunk, end_chunk,
                   facts_dir, existing_facts, chunk_results, validation_stats,
                   document_facts, extraction>>

\* the worker's _process_single_chunk returns
FinishWorker(n) ==
    /\ extraction = "collecting"
    /\ n \in ToProcess
    /\ futures[n].state = "running"
    /\ futures' = [futures EXCEPT ![n] =
                       [state |-> "finished",
                        returned |-> process_single_chunk(chunks[n], Len(existing_facts))]]
    /\ facts_dir' = save_chunk_facts(facts_dir, chunks[n].chunk_id,
                                     futures'[n].returned.validated_facts)
    /\ UNCHANGED <<vars, call, fact_index, session_vars, chunks, start_chunk, end_chunk,
                   existing_facts, chunk_results, validation_stats, document_facts,
                   extraction>>

\* lines 1544-1553: as_completed yields a finished future
CollectResult(n) ==
    /\ extraction = "collecting"
    /\ n \in ToProcess
    /\ futures[n].state = "finished"
    /\ LET returned == futures[n].returned
       IN  /\ chunk_results' = DictSet(chunk_results, returned.chunk_id,
                                       [validated_facts |-> returned.validated_facts,
                                        stats |-> returned.stats])
           /\ validation_stats' =
                 [total_extracted |-> validation_stats.total_extracted + returned.stats.extracted,
                  total_validated |-> validation_stats.total_validated + returned.stats.validated,
                  total_rejected |-> validation_stats.total_rejected + returned.stats.rejected]
    /\ futures' = [futures EXCEPT ![n].state = "collected"]
    /\ UNCHANGED <<vars, call, fact_index, session_vars, chunks, start_chunk, end_chunk,
                   facts_dir, existing_facts, document_facts, extraction>>

RECURSIVE Extend(_, _, _)
Extend(facts, d, keys) ==
    IF keys = <<>> THEN facts
    ELSE Extend(facts \o DictGet(d, Head(keys)).validated_facts, d, Tail(keys))

\* lines 1570-1573: combine results in order
CombineResults ==
    /\ extraction = "collecting"
    /\ \A n \in ToProcess : futures[n].state = "collected"
    /\ document_facts' = Extend(document_facts, chunk_results, SortedKeys(chunk_results))
    /\ extraction' = "combined"
    /\ UNCHANGED <<vars, call, fact_index, session_vars, chunks, start_chunk, end_chunk,
                   facts_dir, existing_facts, futures, chunk_results, validation_stats>>

\* chunk texts: "a b" for the even chunk ids, "c" for the odd ones
ChunkText(chunk_id) == IF chunk_id % 2 = 0 THEN <<"a", " ", "b">> ELSE <<"c">>

\* a quote of the chunk and a quote of the chunks next to it
QuoteOf(chunk_id) == IF chunk_id % 2 = 0 THEN <<"b">> ELSE <<"c">>
QuoteBeside(chunk_id) == IF chunk_id % 2 = 0 THEN <<"c">> ELSE <<"b">>

\* what extract_facts_from_chunk may return for a chunk: nothing; a grounded
\* and an ungrounded fact; an auto-generated fact with a wrong quote, then a
\* grounded fact
FactsExtracted(chunk_id) ==
    LET claim(k) == IntToStr(chunk_id) \o <<k>>
        location == FormatLines(chunk_id + 1, chunk_id + 1)
    IN  { <<>>,
          << ExtractedFact(claim("g"), QuoteOf(chunk_id), location, FALSE),
             ExtractedFact(claim("u"), QuoteBeside(chunk_id), location, FALSE) >>,
          << ExtractedFact(claim("x"), QuoteBeside(chunk_id), location, TRUE),
             ExtractedFact(claim("g"), QuoteOf(chunk_id), location, FALSE) >> }

ChunkLists ==
    {cs \in [1..NumChunks -> UNION {{[chunk_id |-> c, chunk_text |-> ChunkText(c), facts |-> fs] :
                                        fs \in FactsExtracted(c)} : c \in 0..(NumChunks - 1)}] :
        \A n \in 1..NumChunks : cs[n].chunk_id = n - 1}

\* the chunk facts files a former run over the same chunks left for the
\* chunks whose ids are in S
SavedBy(cs, S) ==
    [n \in 1..Len(cs) |->
        IF cs[n].chunk_id \in S
        THEN save_chunk_facts(<<NoFile>>, 0, process_single_chunk(cs[n], 0).validated_facts)[1]
        ELSE NoFile]

\* a first run, on a fresh session or over the files of a former run, whole or
\* up to the last chunk but one; a resumed run from chunk 1, over the file of
\* chunk 0 or over the files of a former run of every chunk
Runs ==
    {[start_chunk |-> 0, end_chunk |-> e, saved |-> S] :
        e \in {NoEndChunk, NumChunks - 2}, S \in {{}, 0..(NumChunks - 1)}}
    \cup
    {[start_chunk |-> 1, end_chunk |-> e, saved |-> S] :
        e \in {NoEndChunk, NumChunks - 2}, S \in {{0}, 0..(NumChunks - 1)}}

InitExtraction ==
    /\ lines = DocB
    /\ claude_client = TRUE
    /\ pc = "idle"
    /\ fact = NoFact
    /\ chunk_text = None
    /\ frame = NoFrame
    /\ response = NoResponse
    /\ service_calls = 0
    /\ result = NoResult
    /\ call = NoCall
    /\ NoSession
    /\ chunks \in ChunkLists
    /\ \E run \in Runs :
          /\ start_chunk = run.start_chunk
          /\ end_chunk = run.end_chunk
          /\ facts_dir = SavedBy(chunks, run.saved)
    /\ existing_facts = <<>>
    /\ futures = [n \in 1..Len(chunks) |-> [state |-> "none", returned |-> None]]
    /\ chunk_results = <<>>
    /\ validation_stats = NoValidationStats
    /\ document_facts = <<>>
    /\ extraction = "called"

NextExtraction ==
    \/ SubmitChunks
    \/ \E n \in 1..Len(chunks) : StartWorker(n)
    \/ \E n \in 1..Len(chunks) : FinishWorker(n)
    \/ \E n \in 1..Len(chunks) : CollectResult(n)
    \/ CombineResults

SpecExtraction == InitExtraction /\ [][NextExtraction]_<<vars, others>>

(***************************************************************************)
(* The construction of an ExtractedFact from keyword arguments, and        *)
(* validate_fact on the same fact given as a dict.  An Optional[List] is   *)
(* a record telling whether it is None, with its items.                    *)
(***************************************************************************)
NoneList == [is_none |-> TRUE, items |-> <<>>]
List(items) == [is_none |-> FALSE, items |-> items]

EvidenceQuote(quote, source_location) ==
    [quote |-> quote, source_location |-> source_location, relevance |-> None]

\* the legacy quote is kept as it came: evidence_quotes is left as given
validate_evidence_unnormalized(kwargs) ==
    IF ~kwargs.evidence_quotes.is_none /\ Len(kwargs.evidence_quotes.items) > 0
    THEN [raised |-> FALSE, object |-> kwargs]
    ELSE IF Truthy(kwargs.evidence_quote)
    THEN [raised |-> FALSE, object |-> kwargs]
    ELSE [raised |-> TRUE, object |-> kwargs]

\* ExtractedFact.validate_evidence, run after the fields are set
validate_evidence(kwargs) ==
    IF ~kwargs.evidence_quotes.is_none /\ Len(kwargs.evidence_quotes.items) > 0
    THEN [raised |-> FALSE, object |-> kwargs]
    ELSE IF Truthy(kwargs.evidence_quote)
    THEN [raised |-> FALSE,
          object |-> [kwargs EXCEPT !.evidence_quotes =
                         List(<<EvidenceQuote(kwargs.evidence_quote, kwargs.source_location)>>)]]
    ELSE [raised |-> TRUE, object |-> kwargs]

\* line 256: eq.get("quote", "") for every entry of a list of dicts; a list
\* that is None is falsy as the empty one is
QuoteStrings(evidence_quotes) ==
    [i \in 1..Len(evidence_quotes.items) |-> evidence_quotes.items[i].quote]

\* the fact as the dict validate_fact reads
AsDict(kwargs) ==
    [claim |-> kwargs.claim, source_location |-> kwargs.source_location,
     evidence_quotes |-> QuoteStrings(kwargs.evidence_quotes),
     evidence_quote |-> kwargs.evidence_quote]

\* ExtractedFact(**kwargs)
Construct ==
    /\ call.method = "ExtractedFact"
    /\ call.constructed = "no"
    /\ LET made == validate_evidence(call.kwargs)
       IN  call' = [call EXCEPT !.constructed = IF made.raised THEN "raised" ELSE "object",
                                !.object = made.object]
    /\ UNCHANGED <<vars, fact_index, session_vars, extraction_vars>>

\* validate_fact(kwargs, 0, chunk_text=chunk_text)
ValidateDict ==
    /\ call.method = "ExtractedFact"
    /\ call.validated = "no"
    /\ call' = [call EXCEPT !.validated = "yes",
                            !.result = ValidateFactInChunk(AsDict(call.kwargs), 0,
                                                           call.chunk_text)]
    /\ UNCHANGED <<vars, fact_index, session_vars, extraction_vars>>

\* the keyword arguments tried: the legacy quote None, empty or a quote;
\* evidence_quotes None, empty or up to MaxQuotes quotes of another location
ConstructQuotes == {<<"b">>, <<"c">>}

KeywordArguments ==
    {[claim |-> <<"c">>, source_location |-> FormatLines(1, 1),
      evidence_quote |-> q, evidence_quotes |-> qs] :
        q \in {None, <<>>} \cup ConstructQuotes,
        qs \in {NoneList}
               \cup {List(items) : items \in UNION {[1..n -> {EvidenceQuote(e, FormatLines(2, 2)) :
                                                                 e \in ConstructQuotes}] :
                                                     n \in 0..MaxQuotes}}}

InitConstruct ==
    /\ lines = DocB
    /\ claude_client = FALSE
    /\ pc = "idle"
    /\ fact = NoFact
    /\ chunk_text = None
    /\ frame = NoFrame
    /\ response = NoResponse
    /\ service_calls = 0
    /\ result = NoResult
    /\ call \in {[method |-> "ExtractedFact", kwargs |-> kwargs, chunk_text |-> ChunkText(c),
                   constructed |-> "no", object |-> kwargs,
                   validated |-> "no", result |-> NoResult] :
                     kwargs \in KeywordArguments, c \in {0, 1}}
    /\ NoSession
    /\ NoExtraction

NextConstruct ==
    \/ Construct
    \/ ValidateDict

SpecConstruct == InitConstruct /\ [][NextConstruct]_<<vars, others>>

(***************************************************************************)
(* FactExtractor.chunk_text, one action per pass of its loop.  The         *)
(* extractor takes chunk_size and overlap_size as they are given.          *)
(***************************************************************************)
MaxDocLines == 6
MaxChunkSize == 3
MaxIterations == 8

\* texts of n lines "a", with and without a newline at the end
Texts ==
    {Join([i \in 1..n |-> <<"a">>], <<NL>>) : n \in 0..MaxDocLines}
    \cup {Join([i \in 1..n |-> <<"a">>], <<NL>>) \o <<NL>> : n \in 1..MaxDocLines}

\* lines 175-179: chunk_text is entered
ChunkTextEntered(text, chunk_size, overlap_size) ==
    [method |-> "chunk_text", chunk_size |-> chunk_size, overlap_size |-> overlap_size,
     at |-> "loop", lines |-> SplitOn(text, NL), chunks |-> <<>>, chunk_id |-> 0, start |-> 0]

\* lines 180-196: one pass of `while start < len(lines)`, or the return
ChunkStep ==
    /\ call.method = "chunk_text"
    /\ call.at = "loop"
    /\ Len(call.chunks) < MaxIterations
    /\ IF call.start < Len(call.lines)
       THEN LET end == Min(call.start + call.chunk_size, Len(call.lines))
                chunk_lines == PySlice(call.lines, call.start, end)
            IN  call' = [call EXCEPT
                           !.chunks = Append(@, [chunk_id |-> call.chunk_id,
                                                 chunk_text |-> Join(chunk_lines, <<NL>>),
                                                 start_line |-> call.start + 1,
                                                 end_line |-> end]),
                           !.chunk_id = @ + 1,
                           !.start = @ + call.chunk_size - call.overlap_size,
                           !.at = IF end >= Len(call.lines) THEN "returned" ELSE "loop"]
       ELSE call' = [call EXCEPT !.at = "returned"]
    /\ UNCHANGED <<vars, fact_index, session_vars, extraction_vars>>

InitChunk ==
    /\ lines = <<>>
    /\ claude_client = FALSE
    /\ pc = "idle"
    /\ fact = NoFact
    /\ chunk_text = None
    /\ frame = NoFrame
    /\ response = NoResponse
    /\ service_calls = 0
    /\ result = NoResult
    /\ call \in {ChunkTextEntered(text, chunk_size, overlap_size) :
                    text \in Texts, chunk_size \in 1..MaxChunkSize,
                    overlap_size \in 0..MaxChunkSize}
    /\ NoSession
    /\ NoExtraction

NextChunk == ChunkStep

SpecChunk == InitChunk /\ [][NextChunk]_<<vars, others>>

(***************************************************************************)
(* Notions the claims are stated in.                                       *)
(***************************************************************************)

\* validate_fact has returned a ValidationResult
Returned == pc = "done" /\ result.outcome = "returned"

\* the evidence quotes of the fact under validation
FactQuotes == QuotesToValidate(fact)

\* the line range the fact claims, when its location parses
Claimed == parse_line_range(fact.source_location)

\* the text of the document's lines a..b (1-indexed, inclusive)
RECURSIVE LinesText(_, _)
LinesText(a, b) ==
    IF a > b THEN <<>>
    ELSE (IF 1 <= a /\ a <= Len(lines) THEN lines[a] ELSE <<>>) \o LinesText(a + 1, b)

\* QuoteMatcher's verdict: exact, or ordered-partial with ratio >= 0.70
Matches(quote, text) == find_quote_in_text(quote, text)[1]

\* the quote is, after normalization, a substring of the normalized text
ExactIn(quote, text) == Contains(normalize_text(text), normalize_text(quote))

\* matchedWords and totalQuoteWords of the ordered partial match
MatchedWords(quote, text) ==
    MatchLoop(SplitWs(normalize_text(text)), SplitWs(normalize_text(quote)), 1, 0, 0)
TotalWords(quote) == Len(SplitWs(normalize_text(quote)))

\* the window widened by 5 lines, the window widened by 20 lines
ExpandedText(s, e) == LinesText(Max(1, s - 5), Min(Len(lines), e + 5))
RecoveryText(s, e) == LinesText(Max(1, s - 20), Min(Len(lines), e + 20))

\* the line range a produced location string reports
ReportedRange(range) ==
    LET n == Len(range) - Len(ExpandedSuffix)
        core == IF n > 0 /\ SubSeq(range, n + 1, Len(range)) = ExpandedSuffix
                THEN SubSeq(range, 1, n) ELSE range
    IN  parse_line_range(core).val

\* the service's answer carries a quote that QuoteMatcher finds in the text
ReturnedQuoteMatches(text) == response.quote # None /\ Matches(response.quote, text)

(***************************************************************************)
(* C1.  In document mode (no chunk text), whenever validate_fact returns   *)
(* is_valid = true, every evidence quote of the fact is grounded: it       *)
(* matches the text of the reported line window, or, when was_recovered,   *)
(* it is the quote that the corrected quote replaces, and the corrected    *)
(* quote matches the recovery window.  Violated: recovery corrects one     *)
(* quote of a multi-quote fact and the fact is accepted with its other     *)
(* failing quotes unchecked.                                               *)
(***************************************************************************)
C1_AcceptedFactIsGrounded ==
    (Returned /\ chunk_text = None /\ result.is_valid) =>
        LET w == ReportedRange(result.actual_line_range)
            text == LinesText(w[1], w[2])
        IN  \A i \in 1..Len(FactQuotes) :
                \/ Matches(FactQuotes[i], text)
                \/ /\ result.was_recovered
                   /\ FactQuotes[i] = frame.best_quote_for_recovery
                   /\ Matches(result.corrected_quote, text)

(***************************************************************************)
(* C2.  In document mode, a fact with a parseable location whose every     *)
(* evidence quote is, after normalization, a substring of the normalized   *)
(* text of the claimed lines is returned valid, not recovered, without     *)
(* corrected quote or location, with actual_line_range "Lines s-e" for     *)
(* the parsed range, and the completion service is not called.             *)
(***************************************************************************)
C2_ExactMatchGuarantee ==
    (Returned /\ ~ChunkMode(chunk_text) /\ FactQuotes # <<>> /\ Claimed.ok) =>
        LET s == Claimed.val[1]
            e == Claimed.val[2]
        IN  (\A i \in 1..Len(FactQuotes) : ExactIn(FactQuotes[i], LinesText(s, e))) =>
                /\ result.is_valid
                /\ ~result.was_recovered
                /\ result.corrected_quote = None
                /\ result.corrected_location = None
                /\ result.actual_line_range = FormatLines(s, e)
                /\ service_calls = 0

\* a quote with a run of blanks found in a line of other case-preserving text
C2_Witness ==
    /\ Returned /\ chunk_text = None /\ lines = DocB
    /\ FactQuotes = << <<"A", " ", " ", "b">>, <<"A", " ", " ", "b">> >>
    /\ result.is_valid
    /\ result.actual_line_range = FormatLines(1, 1)

(***************************************************************************)
(* C3.  Whatever the service answers, if the quote it returns does not     *)
(* match the recovery window (or it returns none), attempt_fact_recovery   *)
(* returns no recovery and validate_fact returns is_valid = false.         *)
(***************************************************************************)
C3_RecoveryNeverTrustsBlindly ==
    (pc = "done" /\ service_calls > 0
        /\ ~ReturnedQuoteMatches(RecoveryText(frame.start_line, frame.end_line))) =>
        /\ attempt_fact_recovery(response,
               RecoveryText(frame.start_line, frame.end_line),
               frame.recovery_start, frame.recovery_end) = NoRecovery
        /\ result.outcome = "returned"
        /\ ~result.is_valid
        /\ ~result.was_recovered

\* found = true with confidence 0.95 and a quote of the last line, out of the window
C3_Witness ==
    /\ Returned /\ service_calls = 1
    /\ response.found = "true" /\ response.confidence = 95 /\ response.quote = <<"c">>
    /\ ~Matches(<<"c">>, RecoveryText(frame.start_line, frame.end_line))
    /\ ~result.is_valid

(***************************************************************************)
(* C4.  attempt_fact_recovery returns a corrected quote if and only if the *)
(* answer has found = true, a confidence >= 0.80 (0.80 succeeds, a missing *)
(* confidence fails) and a quote that QuoteMatcher finds in the window     *)
(* passed to recovery; the corrected location is then "Lines a-b" for that *)
(* window's bounds.                                                        *)
(***************************************************************************)
C4_RecoveryIffAllThree ==
    (pc \in {"done", "reject"} /\ service_calls > 0) =>
        LET s == frame.start_line
            e == frame.end_line
            allThree ==
                /\ response.kind = "object"
                /\ response.found = "true"
                /\ response.has_confidence /\ response.confidence >= 80
                /\ ReturnedQuoteMatches(RecoveryText(s, e))
            recovered == pc = "done" /\ result.outcome = "returned" /\ result.was_recovered
        IN  /\ recovered <=> allThree
            /\ recovered =>
                  /\ result.corrected_quote = response.quote
                  /\ result.corrected_location =
                        FormatLines(Max(1, s - 20), Min(Len(lines), e + 20))

\* recovery at a confidence of exactly 0.80
C4_Witness ==
    /\ Returned /\ result.was_recovered
    /\ response.confidence = 80
    /\ result.corrected_quote = Rep(2)
    /\ result.corrected_location = FormatLines(1, 29)

(***************************************************************************)
(* C5.  When a chunk text is supplied, a fact is valid if and only if      *)
(* every one of its quotes matches the chunk text, and a rejected fact     *)
(* carries the message "k/n quotes not found in chunk", k the number of    *)
(* quotes that do not match the chunk and n the number of quotes.          *)
(* Violated: an empty chunk text is supplied and the fact is validated     *)
(* against the document instead.                                           *)
(***************************************************************************)
C5_ChunkModeAllQuotes ==
    (Returned /\ chunk_text # None /\ FactQuotes # <<>>) =>
        LET unmatched == {i \in 1..Len(FactQuotes) : ~Matches(FactQuotes[i], chunk_text)}
        IN  /\ result.is_valid <=> unmatched = {}
            /\ unmatched # {} =>
                  result.error_message =
                      [text |-> "quotes not found in chunk",
                       k |-> Cardinality(unmatched), n |-> Len(FactQuotes)]

(***************************************************************************)
(* C6.  In document mode, a fact of several quotes of which at least one   *)
(* matches neither the claimed lines nor the widened window is rejected,   *)
(* and its message begins "k/n quotes not found", n the number of quotes   *)
(* and k the number of quotes found neither in the claimed lines nor in    *)
(* the widened window.  Violated: k counts the quotes that failed in the   *)
(* claimed lines, also those the widened window holds.                     *)
(***************************************************************************)
C6_MultiQuoteRejectedWithCount ==
    (Returned /\ chunk_text = None /\ Claimed.ok /\ Len(FactQuotes) >= 2) =>
        LET s == Claimed.val[1]
            e == Claimed.val[2]
            neither == {i \in 1..Len(FactQuotes) :
                           /\ ~Matches(FactQuotes[i], LinesText(s, e))
                           /\ ~Matches(FactQuotes[i], ExpandedText(s, e))}
        IN  neither # {} =>
                /\ ~result.is_valid
                /\ result.error_message.text = "quotes not found in specified lines or nearby"
                /\ result.error_message.n = Len(FactQuotes)
                /\ result.error_message.k = Cardinality(neither)

(***************************************************************************)
(* C7.  A quote that is no exact normalized substring of the window is     *)
(* reported found if and only if matchedWords / totalQuoteWords >= 0.70:   *)
(* 7 of 10 is found, every ratio below 0.70 is not.  Stated of every label *)
(* find_quote_in_text gave for the claimed lines and the widened window.   *)
(***************************************************************************)
C7_ThresholdInclusive ==
    LET quotes == frame.quotes_to_validate
        holds(types, text) ==
            \A i \in 1..Len(types) :
                ~ExactIn(quotes[i], text) =>
                    /\ types[i].label \in {"partial match", "not found"}
                    /\ types[i].label = "partial match" <=>
                          10 * MatchedWords(quotes[i], text) >= 7 * TotalWords(quotes[i])
    IN  /\ holds(frame.match_types, LinesText(frame.start_line, frame.end_line))
        /\ holds(frame.expanded_match_types, ExpandedText(frame.start_line, frame.end_line))

\* a quote of 10 words, 7 of them matched in order, reported found
C7_Witness ==
    \E i \in 1..Len(frame.expanded_match_types) :
        LET q == frame.quotes_to_validate[i]
            text == ExpandedText(frame.start_line, frame.end_line)
        IN  /\ TotalWords(q) = 10 /\ MatchedWords(q, text) = 7
            /\ ~ExactIn(q, text)
            /\ frame.expanded_match_types[i].label = "partial match"

C9_ExpandedSearch ==
    (Returned /\ ~ChunkMode(chunk_text) /\ FactQuotes # <<>> /\ Claimed.ok) =>
        LET s == Claimed.val[1]
            e == Claimed.val[2]
            a == Max(1, s - 5)
            b == Min(Len(lines), e + 5)
        IN  ( /\ \E i \in 1..Len(FactQuotes) : ~Matches(FactQuotes[i], LinesText(s, e))
              /\ \A i \in 1..Len(FactQuotes) : Matches(FactQuotes[i], LinesText(a, b)) ) =>
                /\ result.is_valid
                /\ ~result.was_recovered
                /\ result.actual_line_range = FormatLines(a, b) \o ExpandedSuffix
                /\ service_calls = 0

\* a quote of line 3 claimed at line 1 of a three-line document: the window
\* is clamped to the document's end
C9_Witness ==
    /\ Returned /\ chunk_text = None /\ lines = DocB
    /\ FactQuotes = << <<"c">> >> /\ fact.source_location = FormatLines(1, 1)
    /\ result.is_valid
    /\ result.actual_line_range = FormatLines(1, 3) \o ExpandedSuffix

(***************************************************************************)
(* C10.  A failed recovery is no hard error: for a medium-confidence fact, *)
(* if no service is configured, or the call raises or times out, or the    *)
(* answer is no JSON or no object, or found is not true, or the confidence *)
(* is below 0.80, validate_fact raises nothing and returns is_valid =      *)
(* false with was_recovered = false.                                       *)
(***************************************************************************)
C10_FailedRecoveryIsNoError ==
    ( /\ pc = "done"
      /\ \E n \in 1..Len(frame.stages) : frame.stages[n] = "recovery"
      /\ \/ ~claude_client
         \/ response.kind \in {"raise", "not_json", "not_object"}
         \/ response.found # "true"
         \/ ~response.has_confidence
         \/ response.confidence < 80 ) =>
            /\ result.outcome = "returned"
            /\ ~result.is_valid
            /\ ~result.was_recovered

\* the service call raised and the fact was returned rejected
C10_Witness ==
    /\ Returned /\ service_calls = 1 /\ response.kind = "raise"
    /\ ~result.is_valid /\ ~result.was_recovered

(***************************************************************************)
(* C11.  In document mode, a fact (with evidence quotes) whose             *)
(* source_location does not parse into a line range is rejected with       *)
(* is_valid = false and the error "Invalid location format: <location>";   *)
(* no quote is matched against document text and the completion service    *)
(* is not called.                                                          *)
(***************************************************************************)
C11_UnparseableLocationRejected ==
    (Returned /\ ~ChunkMode(chunk_text)
        /\ (fact.evidence_quotes # <<>> \/ fact.evidence_quote # <<>>)
        /\ ~parse_line_range(fact.source_location).ok) =>
            /\ ~result.is_valid
            /\ result.error_message =
                   [text |-> "Invalid location format", location |-> fact.source_location]
            /\ ~result.was_recovered
            /\ frame.stages = <<>> /\ frame.match_types = <<>>
            /\ frame.expanded_match_types = <<>>
            /\ service_calls = 0

\* a quote of the document claimed at "lines 3-5", with a service configured
C11_Witness ==
    /\ Returned /\ chunk_text = None /\ claude_client /\ lines = DocA
    /\ fact.evidence_quote = <<"c">>
    /\ fact.source_location = <<"l", "i", "n", "e", "s", " ", "3", "-", "5">>
    /\ result.error_message.text = "Invalid location format"

(***************************************************************************)
(* C12.  A fact with no evidence quote at all (an empty evidence_quote and *)
(* an empty evidence_quotes list) is rejected at once with the no-evidence *)
(* error, whatever its location string (parseable or not), chunk text and  *)
(* document; nothing is matched and the completion service is not called.  *)
(***************************************************************************)
C12_NoEvidenceRejected ==
    (Returned /\ fact.evidence_quotes = <<>> /\ fact.evidence_quote = <<>>) =>
        /\ ~result.is_valid
        /\ result.error_message = [text |-> "No evidence quotes found"]
        /\ result.actual_line_range = fact.source_location
        /\ ~result.was_recovered
        /\ frame = NoFrame
        /\ service_calls = 0

\* no quote, a location that does not parse, a chunk text and a service
C12_Witness ==
    /\ Returned /\ fact.evidence_quotes = <<>> /\ fact.evidence_quote = <<>>
    /\ ~parse_line_range(fact.source_location).ok
    /\ ChunkMode(chunk_text) /\ claude_client
    /\ result.error_message.text = "No evidence quotes found"

(***************************************************************************)
(* C13.  For all integers start and end (start < 1, end > lineCount,       *)
(* end < 1 and start > end included), get_line_text(start, end) raises     *)
(* nothing and returns the concatenation, in order, of the lines i with    *)
(* max(1, start) <= i <= min(end, lineCount), the empty string when there  *)
(* is none.  Violated: a negative end is no clamp but an index counted     *)
(* from the end of the document.                                           *)
(***************************************************************************)
C13_GetLineTextClamps ==
    call.method = "get_line_text" =>
        LET a == Max(1, call.start_line)
            b == Min(call.end_line, Len(lines))
            RECURSIVE Selected(_)
            Selected(i) == IF i > b THEN <<>> ELSE lines[i] \o Selected(i + 1)
        IN  call.returned = Selected(a)

\* the fact's fields have the types validate_fact reads them with
WellTyped(f) == f.claim # None /\ ~IllTyped(QuotesToValidate(f))

\* the session is over: the summary was returned or an exception left it
SessionOver == session \in {"returned", "raised"}

Malformed(f) ==
    \/ f.claim \in {<<>>, None}
    \/ f.source_location \in {<<>>, None}
    \/ QuotesToValidate(f) = <<>> \/ IllTyped(QuotesToValidate(f))

(***************************************************************************)
(* C15.  One malformed fact never aborts a batch: for every list with a    *)
(* malformed fact (claim, evidence quote or source_location missing or     *)
(* ill-typed), validate_facts raises nothing and yields an invalid result  *)
(* for the malformed fact and a result for every other fact.  Violated: a  *)
(* claim or quote that is None raises out of validate_facts, and a fact    *)
(* without a claim is accepted.                                            *)
(***************************************************************************)
C15_MalformedFactIsLocal ==
    (SessionOver /\ \E n \in 1..Len(all_facts) : Malformed(all_facts[n])) =>
        /\ session = "returned"
        /\ Len(results) = Len(all_facts)
        /\ \A n \in 1..Len(results) : Malformed(all_facts[n]) => ~results[n].is_valid

(***************************************************************************)
(* C16.  The summary of validate_session and validate_consolidated_facts   *)
(* has total_facts = number of results, valid_facts = number of results    *)
(* with is_valid, invalid_facts = total_facts - valid_facts, and           *)
(* validation_rate = valid_facts / total_facts, which is 0, with no        *)
(* division, when there is no fact.                                        *)
(***************************************************************************)
C16_SummaryCounts ==
    session = "returned" =>
        LET valid == Cardinality({n \in 1..Len(results) : results[n].is_valid})
            rate == stats.validation_rate
        IN  /\ stats.total_facts = Len(results)
            /\ stats.valid_facts = valid
            /\ stats.invalid_facts = stats.total_facts - stats.valid_facts
            /\ stats.valid_facts + stats.invalid_facts = stats.total_facts
            /\ ~rate.raised /\ rate.den > 0
            /\ rate.num * stats.total_facts = stats.valid_facts * rate.den
            /\ stats.total_facts = 0 => rate.num = 0

\* one valid and one invalid fact: a rate of 1/2
C16_Witness ==
    /\ session = "returned" /\ stats.total_facts = 2
    /\ stats.valid_facts = 1 /\ stats.invalid_facts = 1
    /\ stats.validation_rate.num = 1 /\ stats.validation_rate.den = 2

C19_ChunkModeFrame ==
    (Returned /\ chunk_text # None) =>
        /\ service_calls = 0
        /\ ~result.was_recovered
        /\ result.corrected_quote = None /\ result.corrected_location = None
        /\ result.actual_line_range = fact.source_location
        /\ \A n \in 1..Len(frame.stages) : frame.stages[n] = "chunk"
        /\ result.is_valid <=>
              /\ FactQuotes # <<>>
              /\ \A i \in 1..Len(FactQuotes) : Matches(FactQuotes[i], chunk_text)

\* the chunks whose worker has returned
Worked == {n \in ToProcess : futures[n].state \in {"finished", "collected"}}

AutoGenerated(facts) == SelectSeq(facts, LAMBDA f : f.auto_generated)

Accepted(chunk_info) ==
    SelectSeq(chunk_info.facts,
              LAMBDA f : f.auto_generated \/ Matches(f.evidence_quote, chunk_info.chunk_text))

\* the chunks one after the other, each after the facts of the former ones
RECURSIVE Sequential(_, _)
Sequential(n, facts) ==
    IF n > Len(chunks) THEN facts
    ELSE IF n \notin ToProcess THEN Sequential(n + 1, facts)
    ELSE Sequential(n + 1,
                    facts \o process_single_chunk(chunks[n], Len(facts)).validated_facts)

\* the sum of count[n] over the chunks collected so far
RECURSIVE SumCollected(_, _)
SumCollected(n, count) ==
    IF n = 0 THEN 0
    ELSE (IF n \in ToProcess /\ futures[n].state = "collected" THEN count[n] ELSE 0)
         + SumCollected(n - 1, count)

ShownPct(quote, text) == FormatPct(MatchedWords(quote, text), TotalWords(quote))

(***************************************************************************)
(* C21.  In document mode, a fact rejected after the expanded search (with *)
(* or without a recovery attempt) carries in its error message the best    *)
(* match percentage observed: the greatest percentage over the fact's      *)
(* quotes in the widened window.  Violated: the message quotes the match   *)
(* label of the first quote, whatever the other quotes reached.            *)
(***************************************************************************)
C21_MessageReportsBestMatch ==
    (Returned /\ chunk_text = None /\ ~result.is_valid
        /\ \E n \in 1..Len(frame.stages) : frame.stages[n] = "expanded") =>
        LET quotes == frame.quotes_to_validate
            text == ExpandedText(frame.start_line, frame.end_line)
            partial == {i \in 1..Len(quotes) : ~ExactIn(quotes[i], text)}
        IN  /\ result.error_message.best.label = "not found"
            /\ \A i \in partial : ShownPct(quotes[i], text) <= result.error_message.best.pct
            /\ \E i \in partial : ShownPct(quotes[i], text) = result.error_message.best.pct

(***************************************************************************)
(* C22.  A parsed line range satisfies 1 <= start <= end: in document      *)
(* mode a fact with quotes whose location does not give such a range is    *)
(* rejected with "Invalid location format", and only such a fact is.       *)
(* Violated: parse_line_range returns the two numbers as they are written, *)
(* so "Lines 9-3" goes on to the searches.                                 *)
(***************************************************************************)
C22_ParsedRangeWellFormed ==
    (Returned /\ chunk_text = None /\ FactQuotes # <<>>) =>
        LET wellFormed == /\ Claimed.ok
                          /\ 1 <= Claimed.val[1]
                          /\ Claimed.val[1] <= Claimed.val[2]
        IN  /\ wellFormed <=> result.error_message.text # "Invalid location format"
            /\ frame.stages # <<>> => (1 <= frame.start_line /\ frame.start_line <= frame.end_line)

(***************************************************************************)
(* C23.  parse_line_range reads "Lines <start>-<end>" and "Line <n>" in    *)
(* any letter case of the word: every spelling gives the range (start,     *)
(* end), resp. (n, n), that the canonical spelling gives.  Violated: the   *)
(* word is removed by a case-sensitive replace, so "lines 3-5" is no       *)
(* location.                                                               *)
(***************************************************************************)
C23_ParseIgnoresCase ==
    call.method = "parse_line_range" =>
        call.returned = Value(<<call.start_line, call.end_line>>)

(***************************************************************************)
(* C24.  Location strings round-trip: in document mode the                 *)
(* actual_line_range of every valid result (exact, expanded or recovered)  *)
(* and the corrected_location of a recovered one are parsed by             *)
(* parse_line_range, without failure, to the line range the result was     *)
(* found in.  Violated: the suffix " (expanded search)" stays in the       *)
(* string after the word is removed and the end does not read as a number. *)
(***************************************************************************)
C24_LocationsRoundTrip ==
    (Returned /\ chunk_text = None /\ result.is_valid) =>
        LET found == IF result.was_recovered
                     THEN <<frame.recovery_start, frame.recovery_end>>
                     ELSE IF frame.stages[Len(frame.stages)] = "expanded"
                     THEN <<frame.expanded_start, frame.expanded_end>>
                     ELSE <<frame.start_line, frame.end_line>>
        IN  /\ parse_line_range(result.actual_line_range) = Value(found)
            /\ result.was_recovered =>
                   parse_line_range(result.corrected_location) = Value(found)

\* s is an initial part of t
IsPrefix(s, t) == Len(s) <= Len(t) /\ s = SubSeq(t, 1, Len(s))

(***************************************************************************)
(* C25.  A validate_fact run goes through the stages in the order exact    *)
(* range, expanded window, recovery, and ends in one result: the result    *)
(* exists exactly when the run is over; the service is called at most      *)
(* once, and only after the exact and the expanded searches have both      *)
(* failed; a fact accepted by the exact or the expanded search is not      *)
(* marked recovered; a recovered result is valid and carries both the      *)
(* corrected quote and the corrected location, after one service call.     *)
(***************************************************************************)
C25_StageOrder ==
    LET stages == frame.stages
        last == stages[Len(stages)]
    IN  /\ IsPrefix(stages, <<"exact", "expanded", "recovery">>) \/ stages = <<"chunk">>
        /\ (pc = "done") <=> (result # NoResult)
        /\ pc = "done" => result.outcome = "returned"
        /\ pc = "expanded" => stages = <<"exact">>
        /\ pc = "recovery" => stages = <<"exact", "expanded">>
        /\ service_calls <= 1
        /\ service_calls = 1 =>
              /\ stages = <<"exact", "expanded", "recovery">>
              /\ frame.failed_quotes # <<>>
              /\ \E i \in 1..Len(frame.expanded_match_types) :
                    frame.expanded_match_types[i].label = "not found"
        /\ (Returned /\ stages # <<>> /\ last \in {"exact", "expanded", "chunk"}) =>
              ~result.was_recovered /\ service_calls = 0
        /\ (Returned /\ result.was_recovered) =>
              /\ result.is_valid
              /\ result.corrected_quote # None
              /\ result.corrected_location # None
              /\ service_calls = 1
              /\ last = "recovery"

\* a fact failed both searches, the service was called once and the fact was
\* recovered
C25_Witness ==
    /\ Returned /\ result.was_recovered /\ result.is_valid
    /\ service_calls = 1
    /\ frame.stages = <<"exact", "expanded", "recovery">>
    /\ result.corrected_quote = response.quote

\* the words of s occur in t in the same order, letter case apart, not
\* necessarily next to each other
EmbedsIn(s, t) ==
    \E S \in SUBSET (1..Len(t)) :
        /\ Cardinality(S) = Len(s)
        /\ LET at == SortedSeq(S)
           IN  \A i \in 1..Len(s) : Lower(t[at[i]]) = Lower(s[i])

\* the length of the longest initial part of q that occurs so in t
LongestPrefix(q, t) ==
    CHOOSE k \in 0..Len(q) :
        /\ EmbedsIn(SubSeq(q, 1, k), t)
        /\ k < Len(q) => ~EmbedsIn(SubSeq(q, 1, k + 1), t)

(***************************************************************************)
(* C26.  The ordered partial match is a forward greedy alignment: for a    *)
(* quote that is no substring of the window, matchedWords is the length of *)
(* the longest initial part of the quote's words that occurs, letter case  *)
(* apart and in order but not necessarily contiguously, among the window's *)
(* words (no quote word is skipped), and the verdict is taken on           *)
(* matchedWords / totalQuoteWords: found iff it is at least 0.70, the      *)
(* label showing that ratio as a percentage.                               *)
(***************************************************************************)
C26_GreedyPrefixAlignment ==
    (call.method = "find_quote_in_text" /\ call.at = "returned"
        /\ ~ExactIn(call.quote, call.text)) =>
        LET q == SplitWs(normalize_text(call.quote))
            t == SplitWs(normalize_text(call.text))
            m == LongestPrefix(q, t)
        IN  /\ call.matched_words = m
            /\ call.returned[1] <=> (100 * m >= 70 * Len(q))
            /\ call.returned[2].pct = FormatPct(m, Len(q))
            /\ call.returned[2].label = IF call.returned[1] THEN "partial match" ELSE "not found"

\* "A b a" in the text "a / a": the first word matches in another letter
\* case, the second is missing, and the third, though present, is not counted
C26_Witness ==
    /\ call.method = "find_quote_in_text" /\ call.at = "returned"
    /\ call.quote = <<"A", " ", "b", " ", "a">>
    /\ call.text = <<"a", NL, "a">>
    /\ call.matched_words = 1
    /\ call.returned = <<FALSE, NotFound(33)>>

(***************************************************************************)
(* C27.  In document mode, for a fact with several quotes that failed the  *)
(* expanded search, the service is called if and only if a service is      *)
(* configured and at least one quote's ratio matchedWords /                *)
(* totalQuoteWords in the widened window lies in 0.40 <= r < 0.70,         *)
(* whatever the other quotes reached.  Violated: the band is tested on the *)
(* greatest ratio only, so a quote in the band is passed over when another *)
(* quote reached 70% or more.                                              *)
(***************************************************************************)
C27_AnyQuoteMediumConfidence ==
    (Returned /\ chunk_text = None
        /\ Len(frame.quotes_to_validate) > 1
        /\ \E n \in 1..Len(frame.stages) : frame.stages[n] = "expanded"
        /\ (~result.is_valid \/ result.was_recovered)) =>
        LET quotes == frame.quotes_to_validate
            text == ExpandedText(frame.start_line, frame.end_line)
            M(i) == MatchedWords(quotes[i], text)
            T(i) == TotalWords(quotes[i])
            inBand(i) == /\ ~ExactIn(quotes[i], text)
                         /\ 40 * T(i) <= 100 * M(i)
                         /\ 100 * M(i) < 70 * T(i)
        IN  service_calls > 0 <=> (claude_client /\ \E i \in 1..Len(quotes) : inBand(i))

\* the facts saved in the files of the chunks 0..k-1
RECURSIVE SavedBelow(_, _, _)
SavedBelow(dir, k, n) ==
    IF n > Len(dir) \/ n > k THEN <<>>
    ELSE (IF dir[n].saved THEN dir[n].facts ELSE <<>>) \o SavedBelow(dir, k, n + 1)

(***************************************************************************)
(* C28.  Resuming with start_chunk = k > 0 on a session that holds chunk   *)
(* facts files never duplicates facts: the facts loaded as existing are    *)
(* those saved for the chunks 0..k-1, only the chunks with start_chunk <=  *)
(* id (<= end_chunk when given) are processed, and in the combined list no *)
(* fact of a chunk occurs twice, whatever files earlier runs left.         *)
(* Violated: load_all_facts reads the file of every chunk, also of the     *)
(* chunks about to be processed again.                                     *)
(***************************************************************************)
C28_ResumeNeverDuplicates ==
    (extraction \in {"collecting", "combined"} /\ start_chunk > 0) =>
        /\ LET saved == SavedBelow(facts_dir, start_chunk, 1)
           IN  existing_facts = [k \in 1..Len(saved) |-> FromDict(saved[k])]
        /\ \A n \in 1..Len(chunks) :
              futures[n].state # "none" <=>
                  /\ start_chunk <= chunks[n].chunk_id
                  /\ end_chunk # NoEndChunk => chunks[n].chunk_id <= end_chunk
        /\ extraction = "combined" =>
              \A i, j \in 1..Len(document_facts) :
                  document_facts[i] = document_facts[j] => i = j

(***************************************************************************)
(* C29.  Every constructed ExtractedFact has at least one evidence quote:  *)
(* a non-empty evidence_quotes list is kept as given; a fact giving only   *)
(* the legacy evidence_quote gets a one-element evidence_quotes holding    *)
(* that quote and the fact's source_location; a fact giving neither fails  *)
(* construction.  validate_fact, given the same fact as a dict, validates  *)
(* the quotes of evidence_quotes when there are any, the legacy quote as   *)
(* the only quote otherwise, and finds no evidence when there is neither.  *)
(***************************************************************************)
C29_AtLeastOneEvidenceQuote ==
    call.method = "ExtractedFact" =>
        LET kwargs == call.kwargs
            given == ~kwargs.evidence_quotes.is_none /\ kwargs.evidence_quotes.items # <<>>
            legacy == kwargs.evidence_quote # None /\ kwargs.evidence_quote # <<>>
            quotes == IF given
                      THEN [i \in 1..Len(kwargs.evidence_quotes.items) |->
                               kwargs.evidence_quotes.items[i].quote]
                      ELSE IF legacy THEN <<kwargs.evidence_quote>> ELSE <<>>
        IN  /\ call.constructed = "raised" <=>
                  (call.constructed # "no" /\ ~given /\ ~legacy)
            /\ call.constructed = "object" =>
                  /\ ~call.object.evidence_quotes.is_none
                  /\ Len(call.object.evidence_quotes.items) >= 1
                  /\ given => call.object.evidence_quotes = kwargs.evidence_quotes
                  /\ ~given => call.object.evidence_quotes.items =
                                  << [quote |-> kwargs.evidence_quote,
                                      source_location |-> kwargs.source_location,
                                      relevance |-> None] >>
                  /\ call.object.evidence_quote = kwargs.evidence_quote
            /\ call.validated = "yes" =>
                  /\ call.result.outcome = "returned"
                  /\ call.result.is_valid <=>
                        /\ quotes # <<>>
                        /\ \A i \in 1..Len(quotes) : Matches(quotes[i], call.chunk_text)
                  /\ quotes = <<>> <=>
                        call.result.error_message.text = "No evidence quotes found"

\* a fact giving the legacy quote "b" and the evidence_quotes ["c"] is
\* constructed with evidence_quotes as given, and is validated on "c" alone:
\* valid in the chunk "c", where the legacy quote does not occur
C29_Witness ==
    /\ call.method = "ExtractedFact"
    /\ call.kwargs.evidence_quote = <<"b">>
    /\ call.kwargs.evidence_quotes = List(<<EvidenceQuote(<<"c">>, FormatLines(2, 2))>>)
    /\ call.chunk_text = <<"c">>
    /\ call.constructed = "object"
    /\ call.validated = "yes" /\ call.result.is_valid

\* what the claim says of the chunks returned for lines 1..n
ChunksCover(cs, n, chunk_size, overlap_size) ==
    /\ cs # <<>>
    /\ \A k \in 1..Len(cs) :
          /\ cs[k].chunk_id = k - 1
          /\ 1 <= cs[k].start_line /\ cs[k].start_line <= cs[k].end_line
          /\ cs[k].end_line - cs[k].start_line + 1 <= chunk_size
          /\ k > 1 => cs[k].start_line = cs[k - 1].start_line + chunk_size - overlap_size
    /\ cs[1].start_line = 1
    /\ cs[Len(cs)].end_line = n
    /\ \A l \in 1..n : \E k \in 1..Len(cs) : cs[k].start_line <= l /\ l <= cs[k].end_line

(***************************************************************************)
(* C30.  For every text, chunk_size >= 1 and overlap_size >= 0, chunk_text *)
(* terminates: every pass of the loop that does not end it moves the start *)
(* of the next chunk forward; and the chunks returned have the ids 0, 1,   *)
(* 2, ... in order and 1-indexed inclusive line ranges: the first starts   *)
(* at line 1, the last ends at the last line, none has more than           *)
(* chunk_size lines, each starts chunk_size - overlap_size lines after the *)
(* one before, and every line lies in a chunk.  Violated: with             *)
(* overlap_size >= chunk_size the start stays or moves back and the loop   *)
(* goes on for ever.                                                       *)
(***************************************************************************)
C30_ChunkTextTerminates ==
    /\ [][(call.method = "chunk_text" /\ call.at = "loop" /\ call'.at = "loop")
             => call'.start > call.start]_<<vars, others>>
    /\ [](call.method = "chunk_text" /\ call.at = "returned" =>
             ChunksCover(call.chunks, Len(call.lines), call.chunk_size, call.overlap_size))

====
